---- MODULE Spec2Model ----
(***************************************************************************)
(* Model of glyphnet/models.py: the generator and discriminator graph      *)
(* builders, the shared block constructors, the layer naming helper and    *)
(* the adversarial loss selector.                                          *)
(*                                                                         *)
(* A model graph is a sequence of layer records; a tensor is the index of  *)
(* the layer that produced it.  Shapes exclude the batch dimension.        *)
(***************************************************************************)
EXTENDS Integers, Sequences, FiniteSets, TLC

\* ------------------------------------------------------------------ bounds
MaxVectorDim == 2
MaxR == 10
MaxChannels == 2
MaxC == 2

\* encoding tags tried on the loss selector
Tags == {"one-hot", "binary", "xyz", "One-Hot", "onehot", "binary ", "one-hot-binary", "b"}

VARIABLES vector_dim, R, num_filters, c,   \* construction parameters
          pc,                              \* position of the driver
          gl, dl,                          \* layers of the generator / discriminator graph
          x, filters, r,                   \* locals of the running builder
          G, D,                            \* the finished models
          loss                             \* outcome of the last adversarial_loss call

vars == <<vector_dim, R, num_filters, c, pc, gl, dl, x, filters, r, G, D, loss>>

\* ------------------------------------------------------------ Python values
\* index=None of make_name / conv_block
None == -1

\* decimal digits of f'{index}'
Digit(d) ==
  CASE d = 0 -> "0" [] d = 1 -> "1" [] d = 2 -> "2" [] d = 3 -> "3" [] d = 4 -> "4"
    [] d = 5 -> "5" [] d = 6 -> "6" [] d = 7 -> "7" [] d = 8 -> "8" [] d = 9 -> "9"

RECURSIVE str(_)
str(n) == IF n < 10 THEN Digit(n) ELSE str(n \div 10) \o Digit(n % 10)

\* a Python number that may have become a float by true division:
\* the exact value num / den, den a power of two
Num(n) == [num |-> n, den |-> 1]

\* filters /= 2
TrueDivBy2(f) == [num |-> f.num, den |-> f.den * 2]

\* filters *= 2
MulBy2(f) == [num |-> f.num * 2, den |-> f.den]

\* int(filters): truncation (the values are never negative)
int(f) == f.num \div f.den

IsIntegral(f) == f.num % f.den = 0

\* ------------------------------------------------------------------- naming
make_name_no_index(block_name, layer_name, index) ==
  block_name \o "_" \o layer_name

make_name(block_name, layer_name, index) ==
  IF index = None
    THEN block_name \o "_" \o layer_name
    ELSE block_name \o "_" \o layer_name \o "_" \o str(index)

\* f'add_{r+1}'
add_name(i) == "add_" \o str(i)

\* --------------------------------------------------- framework shape rules
CeilDiv(a, b) == (a + b - 1) \div b

\* Conv2D(filters, kernel, stride, padding='same')
Conv2DShape(s, f, stride) == <<CeilDiv(s[1], stride), CeilDiv(s[2], stride), f>>

Conv2DTransposeShape_same(s, f, stride) == <<s[1], s[2], f>>

\* Conv2DTranspose(filters, (3, 3), (2, 2), padding='same')
Conv2DTransposeShape(s, f, stride) == <<s[1] * stride, s[2] * stride, f>>

\* Add: the operands must agree in every dimension, a dimension of 1 broadcasts;
\* <<>> stands for the framework's shape error
Compatible(a, b) ==
  /\ Len(a) = Len(b)
  /\ \A i \in 1..Len(a) : a[i] = b[i] \/ a[i] = 1 \/ b[i] = 1

AddShape(a, b) ==
  IF Compatible(a, b)
    THEN [i \in 1..Len(a) |-> IF a[i] = 1 THEN b[i] ELSE a[i]]
    ELSE <<>>

Layer(name, kind, f, kernel, stride, activation, inputs, shape) ==
  [name |-> name, kind |-> kind, filters |-> f, kernel |-> kernel, stride |-> stride,
   activation |-> activation, inputs |-> inputs, shape |-> shape]

\* a layer built without name=...: the framework generates a fresh name
Auto == ""

\* ------------------------------------------------------------------ blocks
conv_block_always_swish(layers, t, f, block_name, index, pooling, one_by_one, sigmoid) ==
  LET _make_name(layer_name) == make_name(block_name, layer_name, index)
      kernel == IF one_by_one THEN 1 ELSE 3
      stride == IF pooling THEN 2 ELSE 1
      s == Conv2DShape(layers[t].shape, f, stride)
      n == Len(layers)
  IN layers \o << Layer(_make_name("conv"), "Conv2D", f, kernel, stride, "", <<t>>, s),
                  Layer(_make_name("bn"), "BatchNormalization", 0, 0, 0, "", <<n + 1>>, s),
                  Layer(_make_name("swish"), "Activation", 0, 0, 0, "swish", <<n + 2>>, s) >>

conv_block_flags_swapped(layers, t, f, block_name, index, pooling, one_by_one, sigmoid) ==
  LET _make_name(layer_name) == make_name(block_name, layer_name, index)
      kernel == IF pooling THEN 1 ELSE 3
      stride == IF one_by_one THEN 2 ELSE 1
      activation == IF ~sigmoid THEN "swish" ELSE "sigmoid"
      s == Conv2DShape(layers[t].shape, f, stride)
      n == Len(layers)
  IN layers \o << Layer(_make_name("conv"), "Conv2D", f, kernel, stride, "", <<t>>, s),
                  Layer(_make_name("bn"), "BatchNormalization", 0, 0, 0, "", <<n + 1>>, s),
                  Layer(_make_name("swish"), "Activation", 0, 0, 0, activation, <<n + 2>>, s) >>

\* the graph with the block's three layers appended; the block's output tensor
\* is the last of them
conv_block(layers, t, f, block_name, index, pooling, one_by_one, sigmoid) ==
  LET _make_name(layer_name) == make_name(block_name, layer_name, index)
      kernel == IF one_by_one THEN 1 ELSE 3
      stride == IF pooling THEN 2 ELSE 1
      activation == IF ~sigmoid THEN "swish" ELSE "sigmoid"
      s == Conv2DShape(layers[t].shape, f, stride)
      n == Len(layers)
  IN layers \o << Layer(_make_name("conv"), "Conv2D", f, kernel, stride, "", <<t>>, s),
                  Layer(_make_name("bn"), "BatchNormalization", 0, 0, 0, "", <<n + 1>>, s),
                  Layer(_make_name("swish"), "Activation", 0, 0, 0, activation, <<n + 2>>, s) >>

deconv_block(layers, t, f, block_name, index) ==
  LET _make_name(layer_name) == make_name(block_name, layer_name, index)
      s == Conv2DTransposeShape(layers[t].shape, f, 2)
      n == Len(layers)
  IN layers \o << Layer(_make_name("deconv"), "Conv2DTranspose", f, 3, 2, "", <<t>>, s),
                  Layer(_make_name("bn"), "BatchNormalization", 0, 0, 0, "", <<n + 1>>, s),
                  Layer(_make_name("swish"), "Activation", 0, 0, 0, "swish", <<n + 2>>, s) >>

\* tf.keras.layers.Add(name=...)([a, b])
Add(layers, name, a, b) ==
  layers \o << Layer(name, "Add", 0, 0, 0, "", <<a, b>>,
                     AddShape(layers[a].shape, layers[b].shape)) >>

\* the names given with name=... in a graph
ExplicitNames(layers) == {layers[i].name : i \in {j \in 1..Len(layers) : layers[j].name # Auto}}

\* Model(inputs, outputs) rejects a graph in which a layer name is used twice
UniqueNames(layers) ==
  Cardinality(ExplicitNames(layers)) =
    Cardinality({i \in 1..Len(layers) : layers[i].name # Auto})

Model(layers, inputs, outputs) ==
  IF UniqueNames(layers)
    THEN [status |-> "built", inputs |-> inputs, outputs |-> outputs]
    ELSE [status |-> "error", inputs |-> 0, outputs |-> 0]

NoModel == [status |-> "none", inputs |-> 0, outputs |-> 0]

\* ---------------------------------------------------------------- generator
stem_filters_times(last_channels, R_) == last_channels * (2 * R_)

\* filters = last_channels * (2 ** R)
stem_filters(last_channels, R_) == last_channels * (2 ^ R_)

\* one pass of the generator's loop body up to the Add (r_ is the loop variable)
gen_stage(layers, t, f, r_) ==
  LET l1  == deconv_block(layers, t, int(f), "deconv_block", r_ + 1)
      pre == Len(l1)
      l2  == conv_block(l1, pre, int(f), "conv_1by1", r_ + 1, FALSE, TRUE, FALSE)
  IN Add(l2, add_name(r_ + 1), pre, Len(l2))

\* input_ = Input(shape=(vector_dim,)); x = Reshape((1, 1, vector_dim))(input_);
\* filters = last_channels * (2 ** R)
GenInput ==
  /\ pc = "g_input"
  /\ gl' = << Layer(Auto, "InputLayer", 0, 0, 0, "", <<>>, <<vector_dim>>),
              Layer(Auto, "Reshape", 0, 0, 0, "", <<1>>, <<1, 1, vector_dim>>) >>
  /\ x' = 2
  /\ filters' = Num(stem_filters(num_filters, R))
  /\ pc' = "g_stem"
  /\ UNCHANGED <<vector_dim, R, num_filters, c, dl, r, G, D, loss>>

\* x = conv_block(x, filters, block_name='stem', one_by_one=True); filters /= 2
GenStem ==
  /\ pc = "g_stem"
  /\ gl' = conv_block(gl, x, int(filters), "stem", None, FALSE, TRUE, FALSE)
  /\ x' = Len(gl')
  /\ filters' = TrueDivBy2(filters)
  /\ r' = 0
  /\ pc' = "g_loop"
  /\ UNCHANGED <<vector_dim, R, num_filters, c, dl, G, D, loss>>

\* one iteration of `for r in range(R)`; an Add of incompatible shapes raises
GenStage ==
  /\ pc = "g_loop"
  /\ r < R
  /\ gl' = gen_stage(gl, x, filters, r)
  /\ x' = Len(gl')
  /\ filters' = TrueDivBy2(filters)
  /\ r' = r + 1
  /\ pc' = IF gl'[Len(gl')].shape = <<>> THEN "raised" ELSE "g_loop"
  /\ UNCHANGED <<vector_dim, R, num_filters, c, dl, G, D, loss>>

\* x = conv_block(x, c, block_name='prediction_conv', pooling=False, sigmoid=True);
\* G = Model(inputs=[input_], outputs=[x])
GenPredict ==
  /\ pc = "g_loop"
  /\ r = R
  /\ gl' = conv_block(gl, x, c, "prediction_conv", None, FALSE, FALSE, TRUE)
  /\ x' = Len(gl')
  /\ G' = Model(gl', 1, Len(gl'))
  /\ pc' = IF G'.status = "built" THEN "d_input" ELSE "raised"
  /\ UNCHANGED <<vector_dim, R, num_filters, c, dl, filters, r, D, loss>>

\* ------------------------------------------------------------ discriminator
first_filters_undoubled(first_channels) == first_channels

\* filters = first_channels * 2
first_filters(first_channels) == first_channels * 2

prediction_units_no_noise(vector_dim_) == vector_dim_

\* Dense(vector_dim + 1, ...)
prediction_units(vector_dim_) == vector_dim_ + 1

disc_stage_of_input(layers, t, f, r_) ==
  LET l1  == conv_block(layers, t, int(f), "conv_block", r_ + 1, TRUE, FALSE, FALSE)
      pre == Len(l1)
      l2  == conv_block(l1, t, int(f), "conv_1by1", r_ + 1, FALSE, TRUE, FALSE)
  IN Add(l2, add_name(r_ + 1), pre, Len(l2))

\* one pass of the discriminator's loop body up to the Add
disc_stage(layers, t, f, r_) ==
  LET l1  == conv_block(layers, t, int(f), "conv_block", r_ + 1, TRUE, FALSE, FALSE)
      pre == Len(l1)
      l2  == conv_block(l1, pre, int(f), "conv_1by1", r_ + 1, FALSE, TRUE, FALSE)
  IN Add(l2, add_name(r_ + 1), pre, Len(l2))

\* input_dim = 2 ** R; input_ = Input(shape=(input_dim, input_dim, c)); x = input_;
\* filters = first_channels * 2
DiscInput ==
  /\ pc = "d_input"
  /\ dl' = << Layer(Auto, "InputLayer", 0, 0, 0, "", <<>>, <<2 ^ R, 2 ^ R, c>>) >>
  /\ x' = 1
  /\ filters' = Num(first_filters(num_filters))
  /\ pc' = "d_stem"
  /\ UNCHANGED <<vector_dim, R, num_filters, c, gl, r, G, D, loss>>

\* x = conv_block(x, filters, block_name='stem', pooling=False)
DiscStem ==
  /\ pc = "d_stem"
  /\ dl' = conv_block(dl, x, int(filters), "stem", None, FALSE, FALSE, FALSE)
  /\ x' = Len(dl')
  /\ r' = 0
  /\ pc' = "d_loop"
  /\ UNCHANGED <<vector_dim, R, num_filters, c, gl, filters, G, D, loss>>

\* one iteration of `for r in range(R)`
DiscStage ==
  /\ pc = "d_loop"
  /\ r < R
  /\ dl' = disc_stage(dl, x, filters, r)
  /\ x' = Len(dl')
  /\ filters' = MulBy2(filters)
  /\ r' = r + 1
  /\ pc' = IF dl'[Len(dl')].shape = <<>> THEN "raised" ELSE "d_loop"
  /\ UNCHANGED <<vector_dim, R, num_filters, c, gl, G, D, loss>>

\* GlobalAveragePooling2D, Dense(vector_dim + 1) without activation, Model(...)
DiscHead ==
  /\ pc = "d_loop"
  /\ r = R
  /\ LET n == Len(dl)
     IN dl' = dl \o << Layer("prediction_GAP", "GlobalAveragePooling2D", 0, 0, 0, "",
                             <<x>>, <<dl[x].shape[3]>>),
                       Layer("prediction", "Dense", prediction_units(vector_dim), 0, 0, "",
                             <<n + 1>>, <<prediction_units(vector_dim)>>) >>
  /\ x' = Len(dl')
  /\ D' = Model(dl', 1, Len(dl'))
  /\ pc' = IF D'.status = "built" THEN "done" ELSE "raised"
  /\ UNCHANGED <<vector_dim, R, num_filters, c, gl, filters, r, G, loss>>

\* ------------------------------------------------------------ loss selector
one_hot_loss == [name |-> "one_hot_loss", transform |-> "softmax"]

binary_loss == [name |-> "binary_loss", transform |-> "sigmoid"]

NoLoss == [outcome |-> "none", value |-> [name |-> "", transform |-> ""], message |-> ""]

adversarial_loss_default_binary(encoding) ==
  IF encoding = "one-hot"
    THEN [outcome |-> "return", value |-> one_hot_loss, message |-> ""]
    ELSE [outcome |-> "return", value |-> binary_loss, message |-> ""]

adversarial_loss(encoding) ==
  IF encoding = "one-hot"
    THEN [outcome |-> "return", value |-> one_hot_loss, message |-> ""]
  ELSE IF encoding = "binary"
    THEN [outcome |-> "return", value |-> binary_loss, message |-> ""]
  ELSE [outcome |-> "RuntimeError", value |-> NoLoss.value,
        message |-> "Encoding '" \o encoding \o "' not understood"]

\* the selector is independent of the builders; the driver calls it once both
\* models exist
AdversarialLoss ==
  /\ pc = "done"
  /\ \E encoding \in Tags :
       loss' = [tag |-> encoding, result |-> adversarial_loss(encoding)]
  /\ UNCHANGED <<vector_dim, R, num_filters, c, pc, gl, dl, x, filters, r, G, D>>

\* ------------------------------------------------------------ specification
Init ==
  /\ vector_dim \in 1..MaxVectorDim
  /\ R \in 0..MaxR
  /\ num_filters \in 1..MaxChannels
  /\ c \in 1..MaxC
  /\ pc = "g_input"
  /\ gl = <<>>
  /\ dl = <<>>
  /\ x = 0
  /\ filters = Num(0)
  /\ r = 0
  /\ G = NoModel
  /\ D = NoModel
  /\ loss = [tag |-> "", result |-> NoLoss]

Next ==
  \/ GenInput
  \/ GenStem
  \/ GenStage
  \/ GenPredict
  \/ DiscInput
  \/ DiscStem
  \/ DiscStage
  \/ DiscHead
  \/ AdversarialLoss

Spec == Init /\ [][Next]_vars

\* ------------------------------------------------------- reading a graph
Has(layers, name) == \E i \in 1..Len(layers) : layers[i].name = name

Idx(layers, name) == CHOOSE i \in 1..Len(layers) : layers[i].name = name

Named(layers, name) == layers[Idx(layers, name)]

Spatial(s) == <<s[1], s[2]>>

\* the tensors nothing consumes
Unused(layers) ==
  {i \in 1..Len(layers) : \A j \in 1..Len(layers) : \A k \in 1..Len(layers[j].inputs) :
                            layers[j].inputs[k] # i}

\* whether `part` occurs in `whole` as a contiguous run of characters
Contains(whole, part) ==
  \E i \in 1..(Len(whole) - Len(part) + 1) : SubSeq(whole, i, i + Len(part) - 1) = part

\* ------------------------------------------------------------------ claims

\* C1: the generator maps an input of shape (V) to an output of shape
\* (2^R, 2^R, C): the reshape gives a 1x1 grid, the side after stage i is 2^i
\* (each transposed convolution exactly doubles it), and no other layer
\* changes the spatial size; the build ends with a model.
C1_GeneratorShape ==
  /\ Len(gl) >= 2 => /\ gl[1].shape = <<vector_dim>>
                     /\ gl[2].shape = <<1, 1, vector_dim>>
  /\ \A i \in 1..R : Has(gl, add_name(i)) =>
       Spatial(Named(gl, add_name(i)).shape) = <<2 ^ i, 2 ^ i>>
  /\ \A j \in 3..Len(gl) :
       LET in == gl[gl[j].inputs[1]].shape
       IN IF gl[j].kind = "Conv2DTranspose"
            THEN Spatial(gl[j].shape) = <<2 * in[1], 2 * in[2]>>
            ELSE Spatial(gl[j].shape) = Spatial(in)
  /\ pc \in {"d_input", "d_stem", "d_loop", "done"} =>
       /\ G.status = "built"
       /\ gl[G.inputs].shape = <<vector_dim>>
       /\ gl[G.outputs].shape = <<2 ^ R, 2 ^ R, c>>

C1_Witness == G.status = "built" /\ R >= 3 /\ gl[G.outputs].shape = <<2 ^ R, 2 ^ R, c>>

\* C2: the discriminator accepts an image of shape (2^R, 2^R, C) and outputs
\* a vector of length V+1: its last layer is a dense projection to V+1 units
\* without activation, applied to the global average pooling.
C2_DiscriminatorShape ==
  /\ pc = "done" => D.status = "built"
  /\ D.status = "built" =>
       LET out == dl[D.outputs]
       IN /\ dl[D.inputs].shape = <<2 ^ R, 2 ^ R, c>>
          /\ D.outputs = Len(dl)
          /\ out.kind = "Dense"
          /\ out.filters = vector_dim + 1
          /\ out.activation = ""
          /\ out.shape = <<vector_dim + 1>>
          /\ dl[out.inputs[1]].kind = "GlobalAveragePooling2D"

C2_Witness == D.status = "built" /\ R >= 2 /\ dl[D.outputs].shape = <<vector_dim + 1>>

\* the filter count of stage i of each builder
GenStageFilters(i) == Named(gl, make_name("deconv_block", "deconv", i)).filters

DiscStageFilters(i) == Named(dl, make_name("conv_block", "conv", i)).filters

\* C3: with dual configurations the filter count of discriminator stage i
\* equals the filter count of generator stage R+1-i, for every i in 1..R.
C3_MirroredFilters ==
  pc = "done" => \A i \in 1..R : DiscStageFilters(i) = GenStageFilters(R + 1 - i)

\* C4: adversarial_loss returns the softmax comparator for exactly 'one-hot',
\* the sigmoid comparator for exactly 'binary', and for every other tag returns
\* nothing and raises a runtime error whose message contains the tag verbatim.
C4_LossSelector ==
  loss.result.outcome # "none" =>
    /\ loss.tag = "one-hot" => /\ loss.result.outcome = "return"
                               /\ loss.result.value.name = "one_hot_loss"
                               /\ loss.result.value.transform = "softmax"
    /\ loss.tag = "binary" => /\ loss.result.outcome = "return"
                              /\ loss.result.value.name = "binary_loss"
                              /\ loss.result.value.transform = "sigmoid"
    /\ loss.tag \notin {"one-hot", "binary"} =>
         /\ loss.result.outcome = "RuntimeError"
         /\ loss.result.value = NoLoss.value
         /\ Contains(loss.result.message, loss.tag)

C4_Witness ==
  /\ loss.tag = "One-Hot"
  /\ loss.result.outcome = "RuntimeError"
  /\ Contains(loss.result.message, "One-Hot")

\* C5: the discriminator's first convolution (the stem) uses exactly
\* first_channels filters, and the count doubles after each downsampling stage.
C5_StemUsesFirstChannels ==
  /\ Has(dl, "stem_conv") => Named(dl, "stem_conv").filters = num_filters
  /\ pc = "done" => \A i \in 1..R : DiscStageFilters(i) = num_filters * 2 ^ (i - 1)

\* the (block_name, layer_name, index) triples the two builders pass to make_name
GenTriples ==
  ({"stem", "prediction_conv"} \X {"conv", "bn", "swish"} \X {None})
    \cup ({"deconv_block"} \X {"deconv", "bn", "swish"} \X (1..R))
    \cup ({"conv_1by1"} \X {"conv", "bn", "swish"} \X (1..R))

DiscTriples ==
  ({"stem"} \X {"conv", "bn", "swish"} \X {None})
    \cup ({"conv_block", "conv_1by1"} \X {"conv", "bn", "swish"} \X (1..R))

NamesOf(triples) == {make_name(t[1], t[2], t[3]) : t \in triples}

\* C6: within one model all explicitly assigned layer names are pairwise
\* distinct, for the generator and for the discriminator; make_name maps the
\* distinct triples the builders use to distinct strings, so blocks with the
\* same block_name and different index never share a layer name.
C6_NamesCollisionFree ==
  /\ UniqueNames(gl)
  /\ UniqueNames(dl)
  /\ Cardinality(NamesOf(GenTriples)) = Cardinality(GenTriples)
  /\ Cardinality(NamesOf(DiscTriples)) = Cardinality(DiscTriples)
  /\ pc = "done" =>
       /\ NamesOf(GenTriples) \subseteq ExplicitNames(gl)
       /\ NamesOf(DiscTriples) \subseteq ExplicitNames(dl)

C6_Witness ==
  /\ pc = "done"
  /\ R >= 10
  /\ Has(gl, "conv_1by1_conv_1")
  /\ Has(gl, "conv_1by1_conv_10")
  /\ Has(dl, "conv_block_bn_10")

\* the generator's final block: the last three layers of its graph
FinalBlockShape(kernel) ==
  LET n == Len(gl)
  IN /\ G.outputs = n
     /\ n \in Unused(gl)
     /\ gl[n].kind = "Activation"
     /\ gl[n].activation = "sigmoid"
     /\ gl[n].inputs = <<n - 1>>
     /\ gl[n - 1].kind = "BatchNormalization"
     /\ gl[n - 1].inputs = <<n - 2>>
     /\ gl[n - 2].kind = "Conv2D"
     /\ gl[n - 2].name = "prediction_conv_conv"
     /\ gl[n - 2].filters = c
     /\ gl[n - 2].stride = 1
     /\ gl[n - 2].kernel = kernel

\* C7 as stated: the generator's final block is a one-by-one (kernel size 1)
\* convolution block with C filters and a sigmoid, the last layer of the model.
C7_FinalBlockOneByOne == G.status = "built" => FinalBlockShape(1)

\* C7 amended: the generator's final block is a kernel-size-3, stride-1
\* convolution block with C filters whose activation is a sigmoid, and that
\* sigmoid is the model's output and last layer.
C7_FinalBlockKernel3 == G.status = "built" => FinalBlockShape(3)

C7_Witness == G.status = "built" /\ R >= 1 /\ gl[Len(gl)].activation = "sigmoid"

\* discriminator stage i: the downsampling block, the projection and the Add
DownConv(i) == Named(dl, make_name("conv_block", "conv", i))

DownOut(i) == Idx(dl, make_name("conv_block", "swish", i))

ProjConv(i) == Named(dl, make_name("conv_1by1", "conv", i))

ProjOut(i) == Idx(dl, make_name("conv_1by1", "swish", i))

StageDone(i) == Has(dl, add_name(i))

StageSum(i) ==
  /\ DownConv(i).stride = 2
  /\ ProjConv(i).kernel = 1
  /\ ProjConv(i).stride = 1
  /\ Named(dl, add_name(i)).inputs = <<DownOut(i), ProjOut(i)>>

\* C8 as stated: in each discriminator stage the one-by-one projection is
\* taken of the stage's input, the tensor that feeds the stride-2 block, and
\* the stage output is the sum of the downsampled branch and that projection.
C8_ProjectionOfStageInput ==
  \A i \in 1..R : StageDone(i) =>
    /\ StageSum(i)
    /\ ProjConv(i).inputs = DownConv(i).inputs

\* C8 amended: in each discriminator stage the one-by-one projection is taken
\* of the stride-2 downsampling block's output, and the stage output is the
\* elementwise sum of that downsampled branch and its projection.
C8_ProjectionOfDownsampled ==
  \A i \in 1..R : StageDone(i) =>
    /\ StageSum(i)
    /\ ProjConv(i).inputs = <<DownOut(i)>>
    /\ ProjConv(i).inputs # DownConv(i).inputs

C8_Witness == pc = "done" /\ R >= 2 /\ StageDone(2) /\ ProjConv(2).inputs = <<DownOut(2)>>

\* C9: the generator's stem uses last_channels * 2^R filters and stage i uses
\* last_channels * 2^(R-i) filters in its upsample block and its one-by-one
\* block; the halved value is integral wherever int() is applied to it, every
\* filter count used is >= 1, and the feature map entering the prediction
\* block has last_channels channels.
C9_GeneratorFilters ==
  /\ Has(gl, "stem_conv") => Named(gl, "stem_conv").filters = num_filters * 2 ^ R
  /\ \A i \in 1..R : Has(gl, add_name(i)) =>
       /\ GenStageFilters(i) = num_filters * 2 ^ (R - i)
       /\ Named(gl, make_name("conv_1by1", "conv", i)).filters = num_filters * 2 ^ (R - i)
  /\ (pc = "g_loop" /\ r < R) => IsIntegral(filters) /\ int(filters) >= 1
  /\ \A j \in 1..Len(gl) :
       gl[j].kind \in {"Conv2D", "Conv2DTranspose"} /\ gl[j].name # "prediction_conv_conv"
         => gl[j].filters >= 1
  /\ Has(gl, "prediction_conv_conv") =>
       gl[Named(gl, "prediction_conv_conv").inputs[1]].shape[3] = num_filters

C9_Witness ==
  /\ G.status = "built"
  /\ R >= 3
  /\ num_filters = 1
  /\ ~IsIntegral(filters)
  /\ GenStageFilters(R) = 1

\* the Add layers of a graph
Adds(layers) == {i \in 1..Len(layers) : layers[i].kind = "Add"}

\* C10: at every residual Add of both builders the two operands have the same
\* shape, so no build raises and every build ends with a model.
C10_AddOperandsAgree ==
  /\ pc # "raised"
  /\ \A i \in Adds(gl) : gl[gl[i].inputs[1]].shape = gl[gl[i].inputs[2]].shape
  /\ \A i \in Adds(dl) : dl[dl[i].inputs[1]].shape = dl[dl[i].inputs[2]].shape
  /\ pc = "done" => /\ G.status = "built"
                    /\ D.status = "built"
                    /\ Cardinality(Adds(gl)) = R
                    /\ Cardinality(Adds(dl)) = R

C10_Witness == pc = "done" /\ R >= 3 /\ Cardinality(Adds(gl)) = R /\ Cardinality(Adds(dl)) = R

====
